---------------------------- MODULE Spec2Model ----------------------------
(***************************************************************************)
(* A model of generate.py: the password composer (generate_password,      *)
(* generate_from_template, is_valid_template) and the strength evaluator   *)
(* (evaluate_password_strength).                                          *)
(*                                                                         *)
(* A Python str is modelled as a sequence of one-character strings, so     *)
(* that len(), indexing, membership and ''.join() are the sequence         *)
(* operations.  The character universe is ASCII.                           *)
(***************************************************************************)
EXTENDS Integers, Sequences, FiniteSets

VARIABLES
    op,             \* the function that returned (or raised) last
    length,         \* generate_password: the length argument
    use_uppercase,  \* generate_password: flag arguments
    use_lowercase,
    use_numbers,
    use_special,
    template,       \* generate_from_template / is_valid_template: argument
    password,       \* the string produced by the composer, or handed to the evaluator
    valid,          \* is_valid_template: returned value
    score,          \* evaluate_password_strength: returned score
    strength,       \* evaluate_password_strength: returned label
    feedback,       \* evaluate_password_strength: returned feedback list
    raised          \* the exception the last call ended with, "none" if it returned

vars == <<op, length, use_uppercase, use_lowercase, use_numbers, use_special,
          template, password, valid, score, strength, feedback, raised>>

-----------------------------------------------------------------------------
(* Bounds of the model *)

\* requested lengths are -1 .. MaxLength
MaxLength == 17
\* random() is quantised to the multiples of 1/RandRes in [0, 1)
RandRes == 3
\* the draws of one call are seed, seed + stride, seed + 2*stride, ... (mod RandRes)
MaxStride == 1
\* evaluated strings have up to MaxPwLen characters ...
MaxPwLen == 17
\* ... cycling through up to MaxUnique different characters
MaxUnique == 17
\* template inputs: up to MaxRun of each of U, L, D, S
MaxRun == 1
\* template inputs: up to MaxX directives X
MaxX == 4
\* template inputs: up to MaxLiteral literal characters
MaxLiteral == 12

-----------------------------------------------------------------------------
(* Program constants *)

MinLength == 12
MinSpecial == 2
MinUpper == 4
MinLower == 4
MinDigits == 2

ascii_uppercase ==
    <<"A","B","C","D","E","F","G","H","I","J","K","L","M",
      "N","O","P","Q","R","S","T","U","V","W","X","Y","Z">>

ascii_lowercase ==
    <<"a","b","c","d","e","f","g","h","i","j","k","l","m",
      "n","o","p","q","r","s","t","u","v","w","x","y","z">>

digits == <<"0","1","2","3","4","5","6","7","8","9">>

\* "!@#$%&_-?"
allowed_specials == <<"!","@","#","$","%","&","_","-","?">>

\* mutant: the evaluator's set without the underscore the composer can produce
evaluator_specials_NoUnderscore ==
    <<"!","@","#","$","%","^","&","*","(",")","+","-","=","[","]",
      "{","}","|",";",":",",",".","<",">","?","/">>

\* "!@#$%^&*()_+-=[]{}|;:,.<>?/"
evaluator_specials ==
    <<"!","@","#","$","%","^","&","*","(",")","_","+","-","=","[","]",
      "{","}","|",";",":",",",".","<",">","?","/">>

-----------------------------------------------------------------------------
(* Sequences *)

SeqToSet(s) == {s[i] : i \in 1..Len(s)}

\* number of positions of s holding a member of S
CountIn(s, S) == Cardinality({i \in 1..Len(s) : s[i] \in S})

\* s with positions a and b exchanged: x[a], x[b] = x[b], x[a]
Swap(s, a, b) == [s EXCEPT ![a] = s[b], ![b] = s[a]]

-----------------------------------------------------------------------------
(* The random source.  The draws of one call form a stream: the i-th value *)
(* random() returns is Draw(stream, i) / RandRes.                          *)

Streams == [seed : 0..(RandRes - 1), stride : 0..MaxStride]

Draw(stream, i) == (stream.seed + (i - 1) * stream.stride) % RandRes

\* random.choice / one element of random.choices: population[floor(random() * n)]
Choice(population, r) == population[((r * Len(population)) \div RandRes) + 1]

\* random.choices(population, k=k), consuming draws off+1 .. off+k of the stream
Choices(population, k, stream, off) ==
    [i \in 1..k |-> Choice(population, Draw(stream, off + i))]

\* random.shuffle(x): for i in reversed(range(1, len(x))):
\*                        j = randbelow(i + 1); x[i], x[j] = x[j], x[i]
RECURSIVE ShuffleFrom(_, _, _, _)
ShuffleFrom(x, i, stream, off) ==
    IF i < 1 THEN x
    ELSE LET j == (Draw(stream, off + (Len(x) - i)) * (i + 1)) \div RandRes
         IN  ShuffleFrom(Swap(x, i + 1, j + 1), i - 1, stream, off)

Shuffle(x, stream, off) == ShuffleFrom(x, Len(x) - 1, stream, off)

-----------------------------------------------------------------------------
(* generate_password *)

\* mutant: only a non-positive length is raised to the minimum
EnforceMinLength_OnlyNonPositive(len) == IF len < 1 THEN MinLength ELSE len

\* if length < 12: length = 12
EnforceMinLength(len) == IF len < MinLength THEN MinLength ELSE len

\* mutant: no fallback when every class is disabled
CharacterPool_NoFallback(uu, ul, un, us) ==
    (IF uu THEN ascii_uppercase ELSE <<>>)
    \o (IF ul THEN ascii_lowercase ELSE <<>>)
    \o (IF un THEN digits ELSE <<>>)
    \o (IF us THEN allowed_specials ELSE <<>>)

\* the character pool built from the flags, with the lowercase fallback
CharacterPool(uu, ul, un, us) ==
    LET pool == (IF uu THEN ascii_uppercase ELSE <<>>)
                \o (IF ul THEN ascii_lowercase ELSE <<>>)
                \o (IF un THEN digits ELSE <<>>)
                \o (IF us THEN allowed_specials ELSE <<>>)
    IN  IF pool = <<>> THEN ascii_lowercase ELSE pool

\* mutant: the lowercase reservation is missing
Reserved_NoLower(uu, ul, un, us, stream) ==
    LET p1 == IF us THEN Choices(allowed_specials, MinSpecial, stream, 0) ELSE <<>>
        p2 == IF uu THEN p1 \o Choices(ascii_uppercase, MinUpper, stream, Len(p1)) ELSE p1
        p4 == IF un THEN p2 \o Choices(digits, MinDigits, stream, Len(p2)) ELSE p2
    IN  p4

\* the characters reserved for the enabled classes, in the order they are appended
Reserved(uu, ul, un, us, stream) ==
    LET p1 == IF us THEN Choices(allowed_specials, MinSpecial, stream, 0) ELSE <<>>
        p2 == IF uu THEN p1 \o Choices(ascii_uppercase, MinUpper, stream, Len(p1)) ELSE p1
        p3 == IF ul THEN p2 \o Choices(ascii_lowercase, MinLower, stream, Len(p2)) ELSE p2
        p4 == IF un THEN p3 \o Choices(digits, MinDigits, stream, Len(p3)) ELSE p3
    IN  p4

\* mutant: the filler is sized as if every class had been reserved
RemainingLength_AllReserved(len, reserved) ==
    len - (MinSpecial + MinUpper + MinLower + MinDigits)

\* remaining_length = length - len(password)
RemainingLength(len, reserved) == len - Len(reserved)

\* the reserved characters followed by the filler drawn from the pool
Fill(reserved, pool, remaining_length, stream) ==
    IF remaining_length > 0
    THEN reserved \o Choices(pool, remaining_length, stream, Len(reserved))
    ELSE reserved

\* random.choices raises IndexError when it draws from an empty population
ChoicesRaises(population, k) == population = <<>> /\ k > 0

\* the outcome of generate_password: the exception raised, or the returned string
generate_password(len, uu, ul, un, us, stream) ==
    LET floored   == EnforceMinLength(len)
        pool      == CharacterPool(uu, ul, un, us)
        reserved  == Reserved(uu, ul, un, us, stream)
        remaining == RemainingLength(floored, reserved)
    IN  IF ChoicesRaises(pool, remaining)
        THEN [raised |-> "IndexError", password |-> <<>>]
        ELSE LET filled == Fill(reserved, pool, remaining, stream)
             IN  [raised |-> "none", password |-> Shuffle(filled, stream, Len(filled))]

Lengths == (-1)..MaxLength

-----------------------------------------------------------------------------
(* generate_from_template *)

\* the keys of pattern_map
Directives == {"U", "L", "D", "S", "X"}

\* mutant: the alphabets of D and S are exchanged
pattern_map_SwappedDS(char) ==
    CASE char = "U" -> ascii_uppercase
      [] char = "L" -> ascii_lowercase
      [] char = "D" -> allowed_specials
      [] char = "S" -> digits
      [] char = "X" -> ascii_uppercase \o ascii_lowercase \o digits \o allowed_specials

\* pattern_map[char]
pattern_map(char) ==
    CASE char = "U" -> ascii_uppercase
      [] char = "L" -> ascii_lowercase
      [] char = "D" -> digits
      [] char = "S" -> allowed_specials
      [] char = "X" -> ascii_uppercase \o ascii_lowercase \o digits \o allowed_specials

\* the character appended for template character char, r being the draw at hand
TemplateChar(char, r) ==
    IF char \in Directives THEN Choice(pattern_map(char), r) ELSE char

\* the loop over the template; the n-th directive of the template consumes the n-th draw
RECURSIVE TemplateLoop(_, _, _, _, _)
TemplateLoop(tpl, i, result, used, stream) ==
    IF i > Len(tpl) THEN result
    ELSE IF tpl[i] \in Directives
         THEN TemplateLoop(tpl, i + 1,
                           Append(result, TemplateChar(tpl[i], Draw(stream, used + 1))),
                           used + 1, stream)
         ELSE TemplateLoop(tpl, i + 1, Append(result, TemplateChar(tpl[i], 0)),
                           used, stream)

generate_from_template(tpl, stream) == TemplateLoop(tpl, 1, <<>>, 0, stream)

-----------------------------------------------------------------------------
(* is_valid_template *)

\* template.count(char)
CountOf(tpl, char) == CountIn(tpl, {char})

\* sum([...]) of a list of booleans
BoolSum(bs) == Cardinality({i \in 1..Len(bs) : bs[i]})

\* mutant: a template of exactly the minimum length is rejected
is_valid_template_LE(tpl) ==
    IF Len(tpl) <= MinLength THEN FALSE
    ELSE LET has_upper   == "U" \in SeqToSet(tpl)
             has_lower   == "L" \in SeqToSet(tpl)
             has_digit   == "D" \in SeqToSet(tpl)
             has_special == "S" \in SeqToSet(tpl)
             x_count     == CountOf(tpl, "X")
             required_count == 4 - BoolSum(<<has_upper, has_lower, has_digit, has_special>>)
         IN  x_count >= required_count

is_valid_template(tpl) ==
    IF Len(tpl) < MinLength THEN FALSE
    ELSE LET has_upper   == "U" \in SeqToSet(tpl)
             has_lower   == "L" \in SeqToSet(tpl)
             has_digit   == "D" \in SeqToSet(tpl)
             has_special == "S" \in SeqToSet(tpl)
             x_count     == CountOf(tpl, "X")
             required_count == 4 - BoolSum(<<has_upper, has_lower, has_digit, has_special>>)
         IN  x_count >= required_count

-----------------------------------------------------------------------------
(* Template inputs *)

Rep(char, n) == [i \in 1..n |-> char]

\* s rotated left by r positions
Rotate(s, r) ==
    IF Len(s) = 0 THEN s
    ELSE [i \in 1..Len(s) |-> s[((i - 1 + r) % Len(s)) + 1]]

RunTemplates ==
    { Rotate(Rep("U", a) \o Rep("-", f) \o Rep("L", b) \o Rep("X", e)
             \o Rep("D", c) \o Rep("S", d), r) :
        a \in 0..MaxRun, b \in 0..MaxRun, c \in 0..MaxRun, d \in 0..MaxRun,
        e \in 0..MaxX, f \in 0..MaxLiteral, r \in 0..1 }

ExampleTemplates ==
    { <<"A","B","C","-","1","2","3">>,
      <<"U","U","U","U">>,
      <<"U","U","L","L","D","D","S","S">>,
      <<"U","U","L","D","D","S","S","X">>,
      <<"U","U","U","L","L","L","D","D","D","S","S","S">>,
      <<"p","w","-","U","L","D","S","-","X","X","X","X","X">> }

Templates == RunTemplates \cup ExampleTemplates

-----------------------------------------------------------------------------
(* evaluate_password_strength *)

isupper(c) == c \in SeqToSet(ascii_uppercase)
islower(c) == c \in SeqToSet(ascii_lowercase)
isdigit(c) == c \in SeqToSet(digits)
isspecial(c) == c \in SeqToSet(evaluator_specials)

\* the length sub-score
LengthScore(len) ==
    IF len >= 16 THEN 40
    ELSE IF len >= 12 THEN 30
    ELSE 15

\* the length feedback message
LengthFeedback(len) ==
    IF len >= 16 THEN "Good length"
    ELSE IF len >= 12 THEN "Acceptable length"
    ELSE "Too short"

\* len(set(password))
UniqueChars(pw) == Cardinality(SeqToSet(pw))

\* mutant: round() in place of int()
DiversityScore_Rounded(unique_chars, len) ==
    LET scaled == (unique_chars * 40 + len) \div (2 * len)
    IN  IF scaled < 20 THEN scaled ELSE 20

\* min(20, int(unique_chars / length * 20)), for length > 0.  The float quotient
\* times 20, truncated, equals the exact floor of 20 * unique_chars / length for
\* every 0 < unique_chars <= length < 3000 (checked by enumeration in IEEE doubles).
DiversityScore(unique_chars, len) ==
    LET scaled == (unique_chars * 20) \div len
    IN  IF scaled < 20 THEN scaled ELSE 20

\* the feedback appended for the absent classes
ClassFeedback(has_upper, has_lower, has_digit, has_special) ==
    (IF ~has_upper THEN <<"Add uppercase letters">> ELSE <<>>)
    \o (IF ~has_lower THEN <<"Add lowercase letters">> ELSE <<>>)
    \o (IF ~has_digit THEN <<"Add numbers">> ELSE <<>>)
    \o (IF ~has_special THEN <<"Add special characters">> ELSE <<>>)

\* mutant: integer division, unique_chars < length // 2
LacksVariety_Floor(unique_chars, len) == unique_chars < len \div 2

\* unique_chars < length / 2, a float comparison; length / 2 is exact in a double
LacksVariety(unique_chars, len) == 2 * unique_chars < len

\* the feedback appended after the diversity score
VarietyFeedback(unique_chars, len) ==
    IF LacksVariety(unique_chars, len)
    THEN <<"Add more variety of characters">> ELSE <<>>

\* mutant: strict comparisons
Strength_Strict(sc) ==
    IF sc > 90 THEN "Very Strong"
    ELSE IF sc > 70 THEN "Strong"
    ELSE IF sc > 50 THEN "Moderate"
    ELSE IF sc > 30 THEN "Weak"
    ELSE "Very Weak"

\* the label of a score
Strength(sc) ==
    IF sc >= 90 THEN "Very Strong"
    ELSE IF sc >= 70 THEN "Strong"
    ELSE IF sc >= 50 THEN "Moderate"
    ELSE IF sc >= 30 THEN "Weak"
    ELSE "Very Weak"

\* unique_chars / length raises ZeroDivisionError for the empty string
DivisionRaises(len) == len = 0

\* the outcome of evaluate_password_strength(pw): the exception raised, or the
\* returned (score, strength, feedback)
evaluate_password_strength(pw) ==
    LET len          == Len(pw)
        score1       == 0 + LengthScore(len)
        feedback1    == <<LengthFeedback(len)>>
        has_upper    == \E i \in 1..len : isupper(pw[i])
        has_lower    == \E i \in 1..len : islower(pw[i])
        has_digit    == \E i \in 1..len : isdigit(pw[i])
        has_special  == \E i \in 1..len : isspecial(pw[i])
        char_types   == BoolSum(<<has_upper, has_lower, has_digit, has_special>>)
        score2       == score1 + char_types * 10
        feedback2    == feedback1 \o ClassFeedback(has_upper, has_lower, has_digit, has_special)
        unique_chars == UniqueChars(pw)
    IN  IF DivisionRaises(len)
        THEN [raised |-> "ZeroDivisionError", score |-> 0, strength |-> "none",
              feedback |-> <<>>]
        ELSE LET score3    == score2 + DiversityScore(unique_chars, len)
                 feedback3 == feedback2 \o VarietyFeedback(unique_chars, len)
             IN  [raised |-> "none", score |-> score3, strength |-> Strength(score3),
                  feedback |-> feedback3]

-----------------------------------------------------------------------------
(* Evaluator inputs: strings of n characters cycling through the first m    *)
(* characters of a pool that takes the chosen classes in turn.              *)

\* characters of no class of the evaluator
other_chars == <<" ", "~", "'">>

ClassPools == <<ascii_uppercase, ascii_lowercase, digits, evaluator_specials, other_chars>>

\* the pools of the chosen classes, in the order of ClassPools
RECURSIVE Chosen(_, _)
Chosen(classes, k) ==
    IF k > Len(ClassPools) THEN <<>>
    ELSE (IF k \in classes THEN <<ClassPools[k]>> ELSE <<>>) \o Chosen(classes, k + 1)

\* the i-th character of the round-robin walk through the pools ps
Interleaved(ps, i) ==
    LET pool == ps[((i - 1) % Len(ps)) + 1]
    IN  pool[(((i - 1) \div Len(ps)) % Len(pool)) + 1]

PasswordInput(classes, m, n) ==
    LET ps == Chosen(classes, 1)
    IN  IF ps = <<>> THEN <<>>
        ELSE [i \in 1..n |-> Interleaved(ps, ((i - 1) % m) + 1)]

PasswordInputs ==
    { PasswordInput(classes, m, n) :
        classes \in SUBSET (1..Len(ClassPools)), m \in 1..MaxUnique, n \in 0..MaxPwLen }

-----------------------------------------------------------------------------
(* State machine.  The program is single-threaded and keeps nothing between *)
(* requests: a request calls one function from the idle state, may display  *)
(* the generated password with its strength, and then discards everything.  *)

Idle ==
    /\ op = "none"
    /\ length = 16
    /\ use_uppercase = TRUE
    /\ use_lowercase = TRUE
    /\ use_numbers = TRUE
    /\ use_special = TRUE
    /\ template = <<>>
    /\ password = <<>>
    /\ valid = FALSE
    /\ score = 0
    /\ strength = "none"
    /\ feedback = <<>>
    /\ raised = "none"

Init == Idle

\* password = generate_password(length, use_uppercase, use_lowercase, use_numbers, use_special)
GeneratePassword ==
    /\ op = "none"
    /\ \E len \in Lengths, uu \in BOOLEAN, ul \in BOOLEAN, un \in BOOLEAN, us \in BOOLEAN,
          stream \in Streams :
            /\ length' = len
            /\ use_uppercase' = uu
            /\ use_lowercase' = ul
            /\ use_numbers' = un
            /\ use_special' = us
            /\ LET out == generate_password(len, uu, ul, un, us, stream)
               IN  /\ password' = out.password
                   /\ raised' = out.raised
    /\ op' = "generate_password"
    /\ UNCHANGED <<template, valid, score, strength, feedback>>

\* password = generate_from_template(template)
GenerateFromTemplate ==
    /\ op = "none"
    /\ \E tpl \in Templates, stream \in Streams :
            /\ template' = tpl
            /\ password' = generate_from_template(tpl, stream)
    /\ op' = "generate_from_template"
    /\ UNCHANGED <<length, use_uppercase, use_lowercase, use_numbers, use_special,
                   valid, score, strength, feedback, raised>>

\* valid = is_valid_template(template)
IsValidTemplate ==
    /\ op = "none"
    /\ \E tpl \in Templates :
            /\ template' = tpl
            /\ valid' = is_valid_template(tpl)
    /\ op' = "is_valid_template"
    /\ UNCHANGED <<length, use_uppercase, use_lowercase, use_numbers, use_special,
                   password, score, strength, feedback, raised>>

\* the call evaluate_password_strength(pw) and what it leaves behind
Evaluate(pw) ==
    LET out == evaluate_password_strength(pw)
    IN  /\ raised' = out.raised
        /\ score' = out.score
        /\ strength' = out.strength
        /\ feedback' = out.feedback

\* score, strength, feedback = evaluate_password_strength(password), any string
EvaluatePasswordStrength ==
    /\ op = "none"
    /\ \E pw \in PasswordInputs :
            /\ password' = pw
            /\ Evaluate(pw)
    /\ op' = "evaluate_password_strength"
    /\ UNCHANGED <<length, use_uppercase, use_lowercase, use_numbers, use_special,
                   template, valid>>

\* display_password(password, show_strength=True) on a generated password
DisplayPassword ==
    /\ op \in {"generate_password", "generate_from_template"}
    /\ raised = "none"
    /\ Evaluate(password)
    /\ op' = "display_password"
    /\ UNCHANGED <<length, use_uppercase, use_lowercase, use_numbers, use_special,
                   template, password, valid>>

\* the request ends: its values are discarded
Discard ==
    /\ op # "none"
    /\ op' = "none"
    /\ length' = 16
    /\ use_uppercase' = TRUE
    /\ use_lowercase' = TRUE
    /\ use_numbers' = TRUE
    /\ use_special' = TRUE
    /\ template' = <<>>
    /\ password' = <<>>
    /\ valid' = FALSE
    /\ score' = 0
    /\ strength' = "none"
    /\ feedback' = <<>>
    /\ raised' = "none"

Next ==
    \/ GeneratePassword
    \/ GenerateFromTemplate
    \/ IsValidTemplate
    \/ EvaluatePasswordStrength
    \/ DisplayPassword
    \/ Discard

Spec == Init /\ [][Next]_vars

-----------------------------------------------------------------------------
(* Properties *)

UpperSet   == SeqToSet(ascii_uppercase)
LowerSet   == SeqToSet(ascii_lowercase)
DigitSet   == SeqToSet(digits)
SpecialSet == SeqToSet(allowed_specials)
EvalSpecialSet == SeqToSet(evaluator_specials)

Max(a, b) == IF a >= b THEN a ELSE b

Generated == op = "generate_password"
Evaluated == op \in {"evaluate_password_strength", "display_password"}

\* C1: every enabled class is represented in the password generate_password
\* returns by at least its reserved minimum: 2 specials, 4 uppercase letters,
\* 4 lowercase letters, 2 digits.
C1_ReservedMinimums ==
    Generated =>
        /\ raised = "none"
        /\ use_special   => CountIn(password, SpecialSet) >= 2
        /\ use_uppercase => CountIn(password, UpperSet) >= 4
        /\ use_lowercase => CountIn(password, LowerSet) >= 4
        /\ use_numbers   => CountIn(password, DigitSet) >= 2

\* a call with every class enabled and no room for filler: each class holds
\* exactly its reserved minimum
C1_Witness ==
    /\ Generated
    /\ use_special /\ use_uppercase /\ use_lowercase /\ use_numbers
    /\ length = 12
    /\ CountIn(password, SpecialSet) = 2
    /\ CountIn(password, UpperSet) = 4
    /\ CountIn(password, LowerSet) = 4
    /\ CountIn(password, DigitSet) = 2

\* C2: whatever the requested length (0, negative and below 12 included) and
\* the flags, the password generate_password returns has at least 12 characters.
C2_LengthAtLeast12 ==
    Generated => (raised = "none" /\ Len(password) >= 12)

\* a request below 12 with a single class enabled
C2_Witness ==
    /\ Generated
    /\ length = 5
    /\ use_numbers /\ ~use_special /\ ~use_uppercase /\ ~use_lowercase
    /\ Len(password) = 12

\* the union of the alphabets of the enabled classes
EnabledAlphabet ==
    (IF use_uppercase THEN UpperSet ELSE {})
    \cup (IF use_lowercase THEN LowerSet ELSE {})
    \cup (IF use_numbers THEN DigitSet ELSE {})
    \cup (IF use_special THEN SpecialSet ELSE {})

NoClassEnabled == ~use_uppercase /\ ~use_lowercase /\ ~use_numbers /\ ~use_special

\* C3: every character of a generate_password output belongs to the union of
\* the alphabets of the enabled classes; with all four flags false the call
\* does not fail and every character is a lowercase ASCII letter.
C3_OnlyEnabledAlphabets ==
    Generated =>
        /\ raised = "none"
        /\ password # <<>>
        /\ ~NoClassEnabled => SeqToSet(password) \subseteq EnabledAlphabet
        /\ NoClassEnabled => SeqToSet(password) \subseteq LowerSet

\* a call with all four flags false that returned
C3_Witness ==
    /\ Generated
    /\ NoClassEnabled
    /\ raised = "none"
    /\ Len(password) = 14
    /\ SeqToSet(password) \subseteq LowerSet

\* C4: evaluate_password_strength("") does not raise and returns score 15.
\* (Stated as the claim has it; the code divides by len(password).)
C4_EmptyStringScores15 ==
    (Evaluated /\ password = <<>>) => (raised = "none" /\ score = 15)

\* the length sub-score of the claim
C5_L(n) == CASE n >= 16 -> 40
             [] n >= 12 /\ n < 16 -> 30
             [] OTHER -> 15

\* the number of classes present
C5_C(pw) ==
    Cardinality({S \in {UpperSet, LowerSet, DigitSet, EvalSpecialSet} :
                    SeqToSet(pw) \cap S # {}})

\* min(20, floor(20 * u / n)): the largest d <= 20 with d * n <= 20 * u
C5_D(u, n) ==
    CHOOSE d \in 0..20 : /\ d * n <= 20 * u
                         /\ (d = 20 \/ (d + 1) * n > 20 * u)

\* C5: for a non-empty password the score is L + 10*C + D and lies in
\* [15, 100]; twelve 'a' characters score 41.
C5_ScoreFormula ==
    (Evaluated /\ password # <<>>) =>
        /\ raised = "none"
        /\ score = C5_L(Len(password)) + 10 * C5_C(password)
                   + C5_D(Cardinality(SeqToSet(password)), Len(password))
        /\ score >= 15 /\ score <= 100
        /\ password = Rep("a", 12) => score = 41

\* the evaluation of twelve 'a' characters
C5_Witness ==
    /\ op = "evaluate_password_strength"
    /\ password = Rep("a", 12)
    /\ score = 41

\* C6: the label is determined by the returned score alone, by the thresholds
\* 90, 70, 50 and 30.
C6_LabelByScore ==
    (Evaluated /\ raised = "none") =>
        /\ strength = "Very Strong" <=> score >= 90
        /\ strength = "Strong"      <=> (score >= 70 /\ score < 90)
        /\ strength = "Moderate"    <=> (score >= 50 /\ score < 70)
        /\ strength = "Weak"        <=> (score >= 30 /\ score < 50)
        /\ strength = "Very Weak"   <=> score < 30

\* a score on a threshold
C6_Witness ==
    /\ Evaluated
    /\ raised = "none"
    /\ score = 70
    /\ strength = "Strong"

\* the alphabet the claim gives a directive
C7_Alphabet(char) ==
    CASE char = "U" -> UpperSet
      [] char = "L" -> LowerSet
      [] char = "D" -> DigitSet
      [] char = "S" -> SpecialSet
      [] char = "X" -> UpperSet \cup LowerSet \cup DigitSet \cup SpecialSet

C8_ValidTemplate ==
    op = "is_valid_template" =>
        LET present == Cardinality({"U", "L", "D", "S"} \cap SeqToSet(template))
            xs      == Cardinality({i \in 1..Len(template) : template[i] = "X"})
        IN  /\ valid <=> (Len(template) >= 12 /\ xs >= 4 - present)
            /\ Len(template) < 12 => ~valid
            /\ (Len(template) >= 12 /\ present = 4) => valid

\* a pattern of exactly 12 characters with one X for each missing directive
C8_Witness ==
    /\ op = "is_valid_template"
    /\ Len(template) = 12
    /\ "U" \in SeqToSet(template)
    /\ {"L", "D", "S"} \cap SeqToSet(template) = {}
    /\ Cardinality({i \in 1..Len(template) : template[i] = "X"}) = 3
    /\ valid

\* the messages for the absent classes, in their order
C9_Absent(pw) ==
    SelectSeq(<<
        <<UpperSet, "Add uppercase letters">>,
        <<LowerSet, "Add lowercase letters">>,
        <<DigitSet, "Add numbers">>,
        <<EvalSpecialSet, "Add special characters">> >>,
        LAMBDA e : SeqToSet(pw) \cap e[1] = {})

\* C9: for a non-empty password the feedback is one length message, then one
\* message per absent class in the order uppercase, lowercase, numbers,
\* special, then the variety message iff 2 * uniqueChars < length.
C9_FeedbackOrder ==
    (Evaluated /\ password # <<>>) =>
        LET n      == Len(password)
            u      == Cardinality(SeqToSet(password))
            absent == C9_Absent(password)
        IN  /\ raised = "none"
            /\ feedback =
                  << CASE n >= 16 -> "Good length"
                       [] n >= 12 /\ n < 16 -> "Acceptable length"
                       [] OTHER -> "Too short" >>
                  \o [i \in 1..Len(absent) |-> absent[i][2]]
                  \o (IF 2 * u < n THEN <<"Add more variety of characters">> ELSE <<>>)

\* twelve 'a' characters: every kind of message
C9_Witness ==
    /\ op = "evaluate_password_strength"
    /\ password = Rep("a", 12)
    /\ feedback = <<"Acceptable length", "Add uppercase letters", "Add numbers",
                    "Add special characters", "Add more variety of characters">>

\* C10: the password generate_password returns has exactly max(length, 12)
\* characters; the reserved characters never outnumber the floored length.
C10_ExactLength ==
    Generated =>
        /\ raised = "none"
        /\ Len(password) = Max(length, 12)
        /\ \A stream \in Streams :
              Len(Reserved(use_uppercase, use_lowercase, use_numbers, use_special, stream))
                  <= Max(length, 12)

\* a request above 12 with some classes disabled: the filler makes up the difference
C10_Witness ==
    /\ Generated
    /\ length = 15
    /\ use_uppercase /\ ~use_lowercase /\ use_numbers /\ ~use_special
    /\ Len(password) = 15

\* a password is about to be evaluated as generate_password returned it with
\* all four classes enabled
C11_FedAllClasses ==
    /\ op = "generate_password"
    /\ raised = "none"
    /\ use_uppercase /\ use_lowercase /\ use_numbers /\ use_special
    /\ op' = "display_password"
    /\ password' = password

\* C11: a password produced by generate_password with all four classes enabled
\* is scored by evaluate_password_strength with all four classes detected
\* (class sub-score 40, every generated special being in the evaluator's set),
\* total score >= 70 and label "Strong" or "Very Strong".
C11_GeneratedIsStrong ==
    [][ C11_FedAllClasses =>
          /\ raised' = "none"
          /\ SeqToSet(password) \cap SpecialSet # {}
          /\ SeqToSet(password) \cap SpecialSet \subseteq EvalSpecialSet
          /\ \A i \in 1..Len(feedback') :
                feedback'[i] \notin {"Add uppercase letters", "Add lowercase letters",
                                     "Add numbers", "Add special characters"}
          /\ score' - C5_L(Len(password))
                    - C5_D(Cardinality(SeqToSet(password)), Len(password)) = 40
          /\ score' >= 70
          /\ strength' \in {"Strong", "Very Strong"} ]_vars

\* the evaluation of a 12-character password generated with every class
\* enabled, whose two specials are the same underscore
C11_Witness ==
    /\ op = "display_password"
    /\ template = <<>>
    /\ length = 12
    /\ use_uppercase /\ use_lowercase /\ use_numbers /\ use_special
    /\ Len(password) = 12
    /\ SeqToSet(password) \cap SpecialSet = {"_"}
    /\ raised = "none"
    /\ score >= 70 /\ score < 90
    /\ strength = "Strong"

=============================================================================
